---- MODULE Spec2Model ----
(***************************************************************************)
(* Screenshot scheduler: the standalone CLI scheduler                      *)
(* (schedule-screenshot.js: main, scheduleWithPeriodicChecks,              *)
(* takeScreenshotAtExactTime), the HTTP service (server.js: the job        *)
(* registry scheduledJobs, its routes, the node-schedule job callback,     *)
(* takeScreenshot and takeScreenshotAtExactTime) and the daily mode of     *)
(* index.js (scheduleNextScreenshot).                                      *)
(*                                                                         *)
(* Time is the wall clock in milliseconds.  A JavaScript timer never runs  *)
(* before its deadline and may run arbitrarily late (event-loop delay,     *)
(* host sleep): a timer callback is enabled once now >= its deadline and   *)
(* the clock may advance while it is enabled.  A handler runs atomically   *)
(* up to its first await; the clock and other handlers interleave only at  *)
(* awaits.                                                                 *)
(***************************************************************************)
EXTENDS Integers, Sequences, FiniteSets, TLC

VARIABLES
  mode,           \* what runs: "cli" (schedule-screenshot.js), "http" (server.js: scheduling,
                  \* jobs and captures), "gallery" (server.js: the endpoints that read the
                  \* output directory), "daily" (index.js without arguments)
  now,            \* wall clock, ms
  \* ---- schedule-screenshot.js
  cliPc,          \* "start" | "armed" | "fired" | "exited"
  args,           \* main's args: process.argv.slice(2), once main has read it
  targetDate,     \* main's targetDate (ms), NoTime before main has parsed it
  exitCode,       \* process.exit status, NoExit while the process runs
  hasExecuted,    \* scheduleWithPeriodicChecks: let hasExecuted
  intervalId,     \* the setInterval timer: [armed, due]
  backupTimer,    \* the backup setTimeout: [armed, due]
  fires,          \* the guard's calls of takeScreenshotAtExactTime, by the mechanism that made each
  cliCap,         \* the CLI's capture (takeScreenshotAtExactTime activation)
  countdowns,     \* the countdown lines logged, by the whole seconds of remaining time
  \* ---- server.js
  jobs,           \* node-schedule Job objects, in creation order; the index is the handle
  scheduledJobs,  \* const scheduledJobs = new Map(): jobId -> job info
  caps,           \* caps[h]: the capture started by job h's callback
  files,          \* screenshot files in config.screenshotPath (by the timestamp in their name)
  disk,           \* the output directory config.screenshotPath as the file endpoints see it
  daily,          \* index.js in daily mode: its pending timers and its capture
  shots,          \* the takeScreenshot activations started by POST /api/screenshot/now
  resp            \* the response a handler has produced, with its request, until it
                  \* is written to the client; NoResponse otherwise

cliVars  == <<cliPc, args, targetDate, exitCode, hasExecuted, intervalId, backupTimer, fires, cliCap,
              countdowns>>
httpVars == <<jobs, scheduledJobs, caps, shots, resp>>
vars     == <<mode, now, cliPc, args, targetDate, exitCode, hasExecuted, intervalId, backupTimer,
              fires, cliCap, countdowns, jobs, scheduledJobs, caps, shots, files, disk, daily, resp>>

----------------------------------------------------------------------------
\* Bounds of the model

MaxSeconds == 20          \* the clock runs from 0 to MaxSeconds seconds
MaxJobs    == 2           \* captures the service starts: jobs created by POST /api/schedule
                          \* and activations of takeScreenshot
MaxRand    == 2           \* distinct values of the random part of a job id
MaxFiles   == 3           \* files in the output directory
MaxCliSeconds == 35       \* the clock of the CLI scheduler runs from 0 to MaxCliSeconds seconds
MaxDays    == 3           \* the clock of the daily mode runs from 0 to MaxDays days

Horizon == MaxSeconds * 1000

\* Program constants
PROCESS_DURATION_MS == 15000
checkInterval       == 1000

NoTime == -1
NoExit == -1

\* a timer: armed with a deadline, or cleared / never set / already run
ClearedTimer == [armed |-> FALSE, due |-> NoTime]

\* Clock advances: half a second (so that the backup timer can fall between two
\* polling ticks) and a five-second jump (host sleep/wake).  The HTTP service has
\* no sub-second timer of its own and is explored on the five-second grid, the
\* daily mode in steps of six hours.
ClockSteps ==
  IF mode = "cli" THEN {500, 5000} ELSE IF mode = "daily" THEN {21600000} ELSE {5000}

\* Date strings: a missing value, text that does not parse, or an ISO-8601
\* instant (carrying its millisecond value).
NoDatetime      == [kind |-> "missing", ms |-> 0]
HelpFlag        == [kind |-> "help", ms |-> 0]
GarbageDatetime == [kind |-> "garbage", ms |-> 0]
IsoString(ms)   == [kind |-> "iso", ms |-> ms]

\* new Date(string): an invalid Date (getTime() is NaN) for text that is no date
NewDate(d) == [valid |-> d.kind = "iso", time |-> IF d.kind = "iso" THEN d.ms ELSE 0]
\* isNaN(date.getTime())
IsNaN(date) == ~date.valid
\* date.toISOString()
ToISOString(ms) == IsoString(ms)

----------------------------------------------------------------------------
\* takeScreenshotAtExactTime (both files): one activation of the capture routine.
\*   pc       the await the routine is at: "idle" (not entered), "launch" (mkdir and
\*            chromium.launch), "goto" (first page.goto), "retry" (second page.goto),
\*            "adapt" (language and exchange selection), "scroll" (page.evaluate of
\*            the scroll), "settle" (the waitForTimeout after scrolling), "sleeping"
\*            (the exact-time setTimeout), "overlay" (page.evaluate of the overlay),
\*            "shot" (page.screenshot, then browser.close), "done" (returned / thrown)
\*   waits    exact-time waits performed
\*   wakeAt   deadline of the exact-time setTimeout
\*   browser  "none" | "open" | "closed"
\*   result   "none" | "success" | "failure" (server.js: {success: false})
\*            | "thrown" (schedule-screenshot.js: throw error)
\*   error    error.message of the error the catch block caught, by the step whose
\*            await rejected; "none" when nothing was caught
\*   lastLog  what the step just made logged about an error it swallowed: "none", or
\*            "skipped" (a UI-adaptation action failed: 'Could not switch language',
\*            'Could not set Base Exchange')

IdleCap == [pc |-> "idle", browser |-> "none", waits |-> 0, wakeAt |-> NoTime,
            result |-> "none", error |-> "none", lastLog |-> "none"]

\* the capture starts: the routine is entered
StartCap == [IdleCap EXCEPT !.pc = "launch"]

\* (mutant) the catch block returns without closing the browser
CatchBlock_LeavesOpen(c, rethrows) ==
  [c EXCEPT !.pc = "done", !.result = IF rethrows THEN "thrown" ELSE "failure",
            !.error = c.pc]

\* catch (error) { if (browser) await browser.close(); return {success:false} / throw }
\* (closing the browser in the catch block is taken to succeed)
CatchBlock(c, rethrows) ==
  [c EXCEPT !.pc = "done",
            !.browser = IF c.browser = "open" THEN "closed" ELSE c.browser,
            !.result = IF rethrows THEN "thrown" ELSE "failure",
            !.error = c.pc]

\* (mutant) the exact-time wait is left out
WaitForTarget_NoWait(c, target, t) == [c EXCEPT !.pc = "overlay"]

\* (mutant) a pre-warm that overran aborts the capture
WaitForTarget_AbortsOnOverrun(c, target, t) ==
  IF target - t > 0
    THEN [c EXCEPT !.pc = "sleeping", !.waits = c.waits + 1, !.wakeAt = target]
    ELSE [c EXCEPT !.pc = "done", !.browser = "closed", !.result = "failure",
                   !.error = "settle"]

\* "NOW WAIT FOR EXACT TARGET TIME": msUntilTarget = targetDate - now;
\* if (msUntilTarget > 0) await setTimeout(msUntilTarget)
WaitForTarget(c, target, t) ==
  LET ms == target - t IN
  IF ms > 0
    THEN [c EXCEPT !.pc = "sleeping", !.waits = c.waits + 1, !.wakeAt = t + ms]
    ELSE [c EXCEPT !.pc = "overlay"]

\* (mutant) a failed fallback navigation starts the navigation over
RetryFailed_TriesAgain(c, rethrows) == [c EXCEPT !.pc = "goto"]

\* the fallback page.goto (waitUntil: 'load') rejects: it is not inside a try of
\* its own, so the routine's catch block runs
RetryFailed(c, rethrows) == CatchBlock(c, rethrows)

\* (mutant) a failed UI-adaptation action fails the capture
AdaptStep_Fatal(c, ok, rethrows) ==
  IF ok THEN [c EXCEPT !.pc = "scroll"] ELSE CatchBlock(c, rethrows)

\* "Switch to English" and "Select Upbit KRW": each in a try of its own whose catch
\* only logs; the routine goes on to the scroll either way
AdaptStep(c, ok, rethrows) ==
  [c EXCEPT !.pc = "scroll", !.lastLog = IF ok THEN "none" ELSE "skipped"]

\* One step of the routine, from one await to the next, at clock time t; ok tells
\* whether the awaited browser operation succeeded.
CapStep(c, target, t, ok, rethrows) ==
  LET d == [c EXCEPT !.lastLog = "none"] IN
  CASE c.pc = "launch" ->
         IF ok THEN [d EXCEPT !.pc = "goto", !.browser = "open"]
               ELSE CatchBlock(d, rethrows)
    [] c.pc = "goto" ->
         IF ok THEN [d EXCEPT !.pc = "adapt"] ELSE [d EXCEPT !.pc = "retry"]
    [] c.pc = "retry" ->
         IF ok THEN [d EXCEPT !.pc = "adapt"] ELSE RetryFailed(d, rethrows)
    [] c.pc = "adapt" ->
         AdaptStep(d, ok, rethrows)
    [] c.pc = "scroll" ->
         IF ok THEN [d EXCEPT !.pc = "settle"] ELSE CatchBlock(d, rethrows)
    [] c.pc = "settle" ->
         WaitForTarget(d, target, t)
    [] c.pc = "sleeping" ->
         [d EXCEPT !.pc = "overlay"]
    [] c.pc = "overlay" ->
         IF ok THEN [d EXCEPT !.pc = "shot"] ELSE CatchBlock(d, rethrows)
    [] c.pc = "shot" ->
         IF ok THEN [d EXCEPT !.pc = "done", !.browser = "closed", !.result = "success"]
               ELSE CatchBlock(d, rethrows)
    [] OTHER -> c

\* the step at c.pc can run at time t: the exact-time wait ends no earlier than wakeAt
CapEnabled(c, t) ==
  /\ c.pc \notin {"idle", "done"}
  /\ c.pc = "sleeping" => t >= c.wakeAt

\* a browser operation may fail; a plain delay cannot
Outcomes(c) == IF c.pc \in {"settle", "sleeping"} THEN {TRUE} ELSE BOOLEAN

\* the screenshot file the step writes, if any
FilesAfter(c, c2, t) == IF c.pc = "shot" /\ c2.result = "success" THEN files \cup {t} ELSE files

----------------------------------------------------------------------------
\* schedule-screenshot.js

\* argv[2]
CliArgs == {NoDatetime, HelpFlag, GarbageDatetime}
           \cup {IsoString(ms) : ms \in {0, 3000, 15500, 17000, 32000}}

earlyStartTime == targetDate - PROCESS_DURATION_MS

\* (mutant) the backup timer is armed whatever the delay (a delay that is not
\* positive runs the callback at once)
ArmBackup_Always(target, t) ==
  LET msUntilEarlyStart == (target - PROCESS_DURATION_MS) - t IN
  [armed |-> TRUE, due |-> IF msUntilEarlyStart > 0 THEN t + msUntilEarlyStart ELSE t]

\* scheduleWithPeriodicChecks(targetDate): arms the polling interval and, when the
\* early start is still ahead, the backup setTimeout
ArmBackup(target, t) ==
  LET msUntilEarlyStart == (target - PROCESS_DURATION_MS) - t IN
  IF msUntilEarlyStart > 0 THEN [armed |-> TRUE, due |-> t + msUntilEarlyStart]
                           ELSE ClearedTimer

\* (mutant) main lets the present instant through
MainVerdict_AcceptsNow(arg, t) ==
  IF arg.kind \in {"missing", "help"} THEN 0
  ELSE IF IsNaN(NewDate(arg)) THEN 1
  ELSE IF NewDate(arg).time < t THEN 1
  ELSE NoExit

\* main(): the status main exits with at clock time t, NoExit when it goes on to
\* arm the guard: no argument or --help exits 0, an invalid date or a date that
\* is not after the present exits 1
MainVerdict(arg, t) ==
  IF arg.kind \in {"missing", "help"} THEN 0
  ELSE IF IsNaN(NewDate(arg)) THEN 1
  ELSE IF NewDate(arg).time <= t THEN 1
  ELSE NoExit

\* main()
main(arg) ==
  /\ mode = "cli" /\ cliPc = "start"
  /\ args' = arg
  /\ IF MainVerdict(arg, now) # NoExit
       THEN /\ cliPc' = "exited" /\ exitCode' = MainVerdict(arg, now)
            /\ targetDate' = IF IsNaN(NewDate(arg)) THEN targetDate ELSE NewDate(arg).time
            /\ UNCHANGED <<hasExecuted, intervalId, backupTimer>>
       ELSE /\ cliPc' = "armed"
            /\ targetDate' = NewDate(arg).time
            /\ hasExecuted' = FALSE
            /\ intervalId' = [armed |-> TRUE, due |-> now + checkInterval]
            /\ backupTimer' = ArmBackup(NewDate(arg).time, now)
            /\ UNCHANGED exitCode
  /\ UNCHANGED <<mode, now, fires, cliCap, countdowns, httpVars, files, disk, daily>>

\* (mutant) the polling test is one check interval early
ShouldFire_OneTickEarly(t) == t >= earlyStartTime - checkInterval /\ ~hasExecuted

\* (mutant) the polling test asks for the lead instant itself
ShouldFire_ExactInstantOnly(t) == t = earlyStartTime /\ ~hasExecuted

\* if (now >= earlyStartTime && !hasExecuted)
ShouldFire(t) == t >= earlyStartTime /\ ~hasExecuted

\* the guard fires: hasExecuted = true; clearInterval(intervalId);
\* await takeScreenshotAtExactTime(targetDate)
Fire(by) ==
  /\ hasExecuted' = TRUE
  /\ intervalId' = ClearedTimer
  /\ fires' = Append(fires, by)
  /\ cliCap' = StartCap
  /\ cliPc' = "fired"

\* Math.floor(diff / 1000) with diff = targetDate - now
SecondsLeft(t) == (targetDate - t) \div 1000

\* "Log countdown every 30 seconds":
\* if (Math.floor(diff / 1000) % 30 === 0 && diff > 0)
LogsCountdown(t) == SecondsLeft(t) % 30 = 0 /\ targetDate - t > 0

\* the setInterval callback: the countdown, then the test of the lead instant
IntervalCallback ==
  /\ mode = "cli" /\ cliPc \in {"armed", "fired"}
  /\ intervalId.armed /\ now >= intervalId.due
  /\ IF ShouldFire(now)
       THEN Fire("interval")
       ELSE /\ intervalId' = [intervalId EXCEPT !.due = now + checkInterval]
            /\ UNCHANGED <<hasExecuted, fires, cliCap, cliPc>>
  /\ countdowns' = IF LogsCountdown(now) THEN countdowns \cup {SecondsLeft(now)}
                                         ELSE countdowns
  /\ UNCHANGED <<mode, now, args, targetDate, exitCode, backupTimer, httpVars, files, disk, daily>>

\* (mutant) the backup callback does not consult the fired-flag
BackupShouldFire_Always == TRUE

\* the backup callback's test: if (!hasExecuted)
BackupShouldFire == ~hasExecuted

\* the backup setTimeout callback
BackupCallback ==
  /\ mode = "cli" /\ cliPc \in {"armed", "fired"}
  /\ backupTimer.armed /\ now >= backupTimer.due
  /\ backupTimer' = ClearedTimer
  /\ IF BackupShouldFire
       THEN Fire("backup")
       ELSE UNCHANGED <<hasExecuted, intervalId, fires, cliCap, cliPc>>
  /\ UNCHANGED <<mode, now, args, targetDate, exitCode, countdowns, httpVars, files, disk, daily>>

\* (mutant) the guard exits 0 whatever the capture did
ExitStatus_AlwaysZero(result) == 0

\* the guard after the capture: process.exit(0) when the routine returned,
\* process.exit(1) in the catch when it threw
ExitStatus(result) == IF result = "success" THEN 0 ELSE 1

\* the capture awaited by the guard runs one step; when it returns the guard calls
\* process.exit(0), when it throws process.exit(1)
CliCaptureStep ==
  /\ mode = "cli" /\ cliPc = "fired"
  /\ CapEnabled(cliCap, now)
  /\ \E ok \in Outcomes(cliCap) :
       LET c2 == CapStep(cliCap, targetDate, now, ok, TRUE) IN
       /\ cliCap' = c2
       /\ files' = FilesAfter(cliCap, c2, now)
       /\ IF c2.pc = "done"
            THEN /\ cliPc' = "exited"
                 /\ exitCode' = ExitStatus(c2.result)
            ELSE UNCHANGED <<cliPc, exitCode>>
  /\ UNCHANGED <<mode, now, args, targetDate, hasExecuted, intervalId, backupTimer, fires,
                 countdowns, httpVars, disk, daily>>

----------------------------------------------------------------------------
\* server.js

\* Map operations on scheduledJobs
EmptyMap == [k \in {} |-> k]
MapHas(m, k) == k \in DOMAIN m
MapSet(m, k, v) == [x \in DOMAIN m \cup {k} |-> IF x = k THEN v ELSE m[x]]
\* (mutant) delete empties the map
MapDelete_DropsAll(m, k) == EmptyMap
\* (mutant) delete leaves the entry in the map
MapDelete_Keeps(m, k) == m
MapDelete(m, k) == [x \in DOMAIN m \ {k} |-> m[x]]

\* instants a client asks for, and at which requests arrive: the five-second grid
Instants == {s * 5000 : s \in 0..(Horizon \div 5000)}

\* req.body.datetime
Datetimes == {NoDatetime, GarbageDatetime} \cup {IsoString(ms) : ms \in Instants}

\* `job-${Date.now()}-${Math.random().toString(36).substr(2, 9)}`: the clock reading
\* and the random part; nothing in the code compares it with the ids in use
JobId(t, rnd) == <<t, rnd>>
RandomParts == 1..MaxRand
NoId == <<>>
\* the ids a client can present: those the service has handed out, and one it never has
UnknownId == JobId(NoTime, 1)
KnownIds == {jobs[h].id : h \in DOMAIN jobs} \cup {UnknownId}

\* the requests of the model, by what the handler's answer depends on
Request(op, datetime, jobId, filename) ==
  [op |-> op, datetime |-> datetime, jobId |-> jobId, filename |-> filename]
ScheduleRequest(datetime) == Request("schedule", datetime, NoId, <<>>)
DeleteRequest(jobId) == Request("delete", NoDatetime, jobId, <<>>)
ScreenshotNowRequest == Request("now", NoDatetime, NoId, <<>>)
ListJobsRequest == Request("jobs", NoDatetime, NoId, <<>>)
ListScreenshotsRequest == Request("screenshots", NoDatetime, NoId, <<>>)
ScreenshotRequest(filename) == Request("screenshot", NoDatetime, NoId, filename)
DownloadRequest(filename) == Request("download", NoDatetime, NoId, filename)
NoRequest == Request("none", NoDatetime, NoId, <<>>)

\* the responses of the service: res.status(status).json({error}),
\* res.json({success: true, jobId, scheduledFor}), res.json({jobs}),
\* res.json({screenshots}) and res.sendFile(filepath); body is the list of jobs,
\* screenshots the list of screenshots and file the path of the file sent
Response(status, error, jobId, scheduledFor) ==
  [status |-> status, error |-> error, jobId |-> jobId, scheduledFor |-> scheduledFor,
   body |-> {}, screenshots |-> <<>>, file |-> <<>>]
Reply(req, r) ==
  [req |-> req, status |-> r.status, error |-> r.error, jobId |-> r.jobId,
   scheduledFor |-> r.scheduledFor, body |-> r.body, screenshots |-> r.screenshots,
   file |-> r.file]
NoResponse == Reply(NoRequest, Response(0, "none", NoId, NoDatetime))

\* node-schedule's scheduleJob(date, callback) returns a Job when the date is not
\* in the past and null when it is (the handler's `if (!job)` branch)
ScheduleJobAccepts(date, t) == date >= t

\* (mutant) the validation lets the present instant through
ValidateDatetime_AcceptsNow(datetime, t) ==
  IF datetime.kind = "missing" THEN "datetime is required"
  ELSE IF IsNaN(NewDate(datetime)) THEN "Invalid datetime format"
  ELSE IF NewDate(datetime).time < t THEN "datetime must be in the future"
  ELSE "ok"

\* the validation of POST /api/schedule: "ok" or the 400 error message
ValidateDatetime(datetime, t) ==
  IF datetime.kind = "missing" THEN "datetime is required"
  ELSE IF IsNaN(NewDate(datetime)) THEN "Invalid datetime format"
  ELSE IF NewDate(datetime).time <= t THEN "datetime must be in the future"
  ELSE "ok"

\* the response of POST /api/schedule handled at time t
ScheduleResponse(datetime, rnd, t) ==
  LET verdict == ValidateDatetime(datetime, t)
      target  == NewDate(datetime).time
  IN
  IF verdict # "ok"
    THEN Response(400, verdict, NoId, NoDatetime)
  ELSE IF ~ScheduleJobAccepts(target - PROCESS_DURATION_MS, t)
    THEN Response(500, "Failed to schedule job", NoId, NoDatetime)
  ELSE Response(200, "none", JobId(t, rnd), ToISOString(target))

\* scheduledJobs.set(jobId, {id, datetime, recurring, scheduled, job})
StoreJob(m, jobId, target, recurring, t, h) ==
  MapSet(m, jobId, [id |-> jobId, datetime |-> ToISOString(target),
                    recurring |-> recurring, scheduled |-> ToISOString(t), job |-> h])

\* app.post('/api/schedule'): a request that passes the validation and whose job
\* node-schedule accepts creates the job, stores it and answers 200; any other
\* request is answered 400 or 500 before anything is created.  rnd is the value
\* Math.random() yields when the job id is built.
ScheduleAccepted(datetime, recurring, rnd) ==
  LET target == NewDate(datetime).time
      jobId  == JobId(now, rnd)
  IN
  /\ Len(jobs) + Len(shots) < MaxJobs
  /\ jobs' = Append(jobs, [id |-> jobId, targetDate |-> target,
                           fireAt |-> target - PROCESS_DURATION_MS,
                           recurring |-> recurring, st |-> "pending"])
  /\ caps' = Append(caps, IdleCap)
  /\ scheduledJobs' = StoreJob(scheduledJobs, jobId, target, recurring, now, Len(jobs) + 1)
  /\ resp' = Reply(ScheduleRequest(datetime), ScheduleResponse(datetime, rnd, now))

PostSchedule(datetime, recurring) ==
  /\ mode = "http" /\ resp = NoResponse
  /\ IF ScheduleResponse(datetime, 1, now).status # 200
       THEN /\ resp' = Reply(ScheduleRequest(datetime),
                             ScheduleResponse(datetime, 1, now))
            /\ UNCHANGED <<jobs, scheduledJobs, caps>>
       ELSE \E rnd \in RandomParts : ScheduleAccepted(datetime, recurring, rnd)
  /\ UNCHANGED <<mode, now, cliVars, shots, files, disk, daily>>

\* (mutant) the listing hands out the registry's values as they are
ListJobs_WholeEntries == {scheduledJobs[k] : k \in DOMAIN scheduledJobs}

\* app.get('/api/jobs'): the records listed, one per value of the Map; two
\* values of the Map differ in their id, so the records form a set
ListJobs ==
  {[id |-> scheduledJobs[k].id, datetime |-> scheduledJobs[k].datetime,
    recurring |-> scheduledJobs[k].recurring, scheduled |-> scheduledJobs[k].scheduled]
     : k \in DOMAIN scheduledJobs}

\* app.get('/api/jobs')
GetJobs ==
  /\ mode = "http" /\ resp = NoResponse
  /\ resp' = Reply(ListJobsRequest,
                   [Response(200, "none", NoId, NoDatetime) EXCEPT !.body = ListJobs])
  /\ UNCHANGED <<mode, now, cliVars, jobs, scheduledJobs, caps, shots, files, disk, daily>>

\* (mutant) cancelling also stops a job whose callback is running
JobCancel_AlsoRunning(j) ==
  IF j.st \in {"pending", "running"} THEN [j EXCEPT !.st = "cancelled"] ELSE j

\* job.cancel() of node-schedule: drops the pending invocation; a job whose
\* callback already runs (or has run) has none
JobCancel(j) == IF j.st = "pending" THEN [j EXCEPT !.st = "cancelled"] ELSE j

\* the response of DELETE /api/jobs/:jobId
DeleteResponse(jobId) ==
  IF ~MapHas(scheduledJobs, jobId)
    THEN Response(404, "Job not found", NoId, NoDatetime)
    ELSE Response(200, "none", NoId, NoDatetime)

\* app.delete('/api/jobs/:jobId')
DeleteJob(jobId) ==
  /\ mode = "http" /\ resp = NoResponse
  /\ resp' = Reply(DeleteRequest(jobId), DeleteResponse(jobId))
  /\ IF DeleteResponse(jobId).status = 404
       THEN UNCHANGED <<jobs, scheduledJobs>>
       ELSE /\ jobs' = [jobs EXCEPT ![scheduledJobs[jobId].job] = JobCancel(@)]
            /\ scheduledJobs' = MapDelete(scheduledJobs, jobId)
  /\ UNCHANGED <<mode, now, cliVars, caps, shots, files, disk, daily>>

\* node-schedule runs the job's callback, no earlier than the job's date; the
\* callback enters takeScreenshotAtExactTime(targetDate)
JobFire(h) ==
  /\ mode = "http" /\ resp = NoResponse
  /\ jobs[h].st = "pending"
  /\ now >= jobs[h].fireAt
  /\ jobs' = [jobs EXCEPT ![h].st = "running"]
  /\ caps' = [caps EXCEPT ![h] = StartCap]
  /\ UNCHANGED <<mode, now, cliVars, scheduledJobs, shots, files, disk, daily, resp>>

\* the completion path of the callback: inside if (!recurring) it calls
\* scheduledJobs.delete(jobId) and logs "Job ... removed from schedule", whether
\* or not the registry still holds the id
CompletionRemoves(j) == ~j.recurring

\* (mutant) the callback removes the job only when the capture succeeded
AfterCapture_OnlyOnSuccess(j, result) ==
  IF ~j.recurring /\ result = "success" THEN MapDelete(scheduledJobs, j.id) ELSE scheduledJobs

\* the rest of the callback once takeScreenshotAtExactTime has returned:
\* if (!recurring) scheduledJobs.delete(jobId)
AfterCapture(j, result) ==
  IF ~j.recurring THEN MapDelete(scheduledJobs, j.id) ELSE scheduledJobs

\* the capture of job h runs one step; when it returns, the callback finishes
HttpCaptureStep(h) ==
  /\ mode = "http" /\ resp = NoResponse
  /\ jobs[h].st = "running"
  /\ CapEnabled(caps[h], now)
  /\ \E ok \in Outcomes(caps[h]) :
       LET c2 == CapStep(caps[h], jobs[h].targetDate, now, ok, FALSE) IN
       /\ caps' = [caps EXCEPT ![h] = c2]
       /\ files' = FilesAfter(caps[h], c2, now)
       /\ IF c2.pc = "done"
            THEN /\ jobs' = [jobs EXCEPT ![h].st = "done"]
                 /\ scheduledJobs' = AfterCapture(jobs[h], c2.result)
            ELSE UNCHANGED <<jobs, scheduledJobs>>
  /\ UNCHANGED <<mode, now, cliVars, shots, disk, daily, resp>>

\* takeScreenshot (server.js): the steps of takeScreenshotAtExactTime without the
\* exact-time wait; the overlay follows the delay after scrolling
ShotStep(c, t, ok) ==
  IF c.pc = "settle" THEN [c EXCEPT !.pc = "overlay", !.lastLog = "none"]
                     ELSE CapStep(c, NoTime, t, ok, FALSE)

\* app.post('/api/screenshot/now'): the handler enters takeScreenshot
PostScreenshotNow ==
  /\ mode = "http" /\ resp = NoResponse
  /\ Len(jobs) + Len(shots) < MaxJobs
  /\ shots' = Append(shots, StartCap)
  /\ UNCHANGED <<mode, now, cliVars, jobs, scheduledJobs, caps, files, disk, daily, resp>>

\* (mutant) the handler answers 200 whatever takeScreenshot returned
ScreenshotNowResponse_AlwaysOk(c) == Response(200, c.error, NoId, NoDatetime)

\* the response of POST /api/screenshot/now once takeScreenshot has returned c:
\* res.json({success: true, ...}) or res.status(500).json({success: false, error})
ScreenshotNowResponse(c) ==
  IF c.result = "success" THEN Response(200, "none", NoId, NoDatetime)
                          ELSE Response(500, c.error, NoId, NoDatetime)

\* the capture of the i-th POST /api/screenshot/now runs one step; when it
\* returns, the handler answers
ShotCaptureStep(i) ==
  /\ mode = "http" /\ resp = NoResponse
  /\ CapEnabled(shots[i], now)
  /\ \E ok \in Outcomes(shots[i]) :
       LET c2 == ShotStep(shots[i], now, ok) IN
       /\ shots' = [shots EXCEPT ![i] = c2]
       /\ files' = FilesAfter(shots[i], c2, now)
       /\ resp' = IF c2.pc = "done"
                    THEN Reply(ScreenshotNowRequest, ScreenshotNowResponse(c2))
                    ELSE resp
  /\ UNCHANGED <<mode, now, cliVars, jobs, scheduledJobs, caps, disk, daily>>

\* res.json(...) / res.status(...).json(...): the response is written to the client
ResponseSent ==
  /\ mode \in {"http", "gallery"} /\ resp # NoResponse
  /\ resp' = NoResponse
  /\ UNCHANGED <<mode, now, cliVars, jobs, scheduledJobs, caps, shots, files, disk, daily>>

----------------------------------------------------------------------------
\* server.js: the output directory and the endpoints that read it.  These
\* endpoints use nothing of the jobs and the registry, and a capture reaches the
\* directory only by creating it and by writing its file; they are explored with
\* the directory as their state.

\* A file name is the sequence of the pieces of its text, a path the sequence of
\* its segments, each a name; <<"..">> is the parent segment.
ParentSegment == <<"..">>

\* config.screenshotPath: join(HOME, 'Desktop', 'screenshots')
ScreenshotPath == << <<"home">>, <<"Desktop">>, <<"screenshots">> >>

\* a file of the host that lies outside the output directory
OutsideFile == << <<"home">>, <<"Desktop">>, <<"passwords", ".txt">> >>

\* (mutant) the capture saves its file under another extension
ShotName_Jpeg(t) == <<"screenshot-", ToString(t), ".jpg">>

\* `screenshot-${timestamp}.png` with timestamp = new Date().toISOString() with
\* ':' and '.' replaced by '-'
ShotName(t) == <<"screenshot-", ToString(t), ".png">>

\* other files that can lie in the folder: a copy of a screenshot, a backup of
\* one, a file of another tool
OtherNames == {<<"screenshot-", "copy", ".png">>,
               <<"screenshot-", "0", ".png", ".bak">>,
               <<"old-", "screenshot-", "0", ".png">>}

\* the directory does not exist
NoDirectory == [exists |-> FALSE, entries |-> EmptyMap]

\* file.startsWith(prefix), file.endsWith(suffix)
StartsWith(name, prefix) == Len(name) > 0 /\ name[1] = prefix
EndsWith(name, suffix) == Len(name) > 0 /\ name[Len(name)] = suffix

\* path.join(...): the segments one after the other, normalised: a parent
\* segment removes the segment before it
RECURSIVE Normalize(_, _)
Normalize(acc, segs) ==
  IF segs = <<>> THEN acc
  ELSE IF Head(segs) = ParentSegment
    THEN Normalize(IF acc = <<>> THEN acc ELSE SubSeq(acc, 1, Len(acc) - 1), Tail(segs))
    ELSE Normalize(Append(acc, Head(segs)), Tail(segs))
Join(base, rel) == Normalize(<<>>, base \o rel)

\* the files of the host, by path
IsFile(path) ==
  \/ path = OutsideFile
  \/ /\ disk.exists
     /\ Len(path) = Len(ScreenshotPath) + 1
     /\ SubSeq(path, 1, Len(ScreenshotPath)) = ScreenshotPath
     /\ path[Len(path)] \in DOMAIN disk.entries
\* the directories of the host, by path
IsDirectory(path) ==
  \/ Len(path) < Len(ScreenshotPath) /\ path = SubSeq(ScreenshotPath, 1, Len(path))
  \/ path = ScreenshotPath /\ disk.exists
\* fs.existsSync(path)
ExistsSync(path) == IsFile(path) \/ IsDirectory(path)

\* takeScreenshot / takeScreenshotAtExactTime:
\* if (!fs.existsSync(config.screenshotPath)) fs.mkdirSync(..., {recursive: true})
CaptureMakesDirectory ==
  /\ mode = "gallery" /\ resp = NoResponse
  /\ ~disk.exists
  /\ disk' = [disk EXCEPT !.exists = TRUE]
  /\ UNCHANGED <<mode, now, cliVars, httpVars, files, daily>>

\* page.screenshot({path: filepath}): the file is created, or written over when a
\* file of that name is there (its creation time stays)
WriteFile(entries, name, t) ==
  IF name \in DOMAIN entries THEN entries ELSE MapSet(entries, name, t)

\* a capture writes its screenshot
CaptureWritesFile ==
  /\ mode = "gallery" /\ resp = NoResponse
  /\ disk.exists
  /\ Cardinality(DOMAIN disk.entries) < MaxFiles \/ ShotName(now) \in DOMAIN disk.entries
  /\ disk' = [disk EXCEPT !.entries = WriteFile(disk.entries, ShotName(now), now)]
  /\ UNCHANGED <<mode, now, cliVars, httpVars, files, daily>>

\* the user, or another program, puts a file into the folder
OtherFileAppears(name) ==
  /\ mode = "gallery" /\ resp = NoResponse
  /\ disk.exists
  /\ Cardinality(DOMAIN disk.entries) < MaxFiles
  /\ name \notin DOMAIN disk.entries
  /\ disk' = [disk EXCEPT !.entries = MapSet(disk.entries, name, now)]
  /\ UNCHANGED <<mode, now, cliVars, httpVars, files, daily>>

\* fs.readdirSync(config.screenshotPath): the names in the directory, in an order
\* the file system chooses
Readdir ==
  {order \in [1..Cardinality(DOMAIN disk.entries) -> DOMAIN disk.entries] :
     \A i, j \in DOMAIN order : i # j => order[i] # order[j]}

\* .filter(file => file.startsWith('screenshot-') && file.endsWith('.png'))
IsScreenshotName(file) == StartsWith(file, "screenshot-") /\ EndsWith(file, ".png")

\* .map(file => ({filename: file, ..., created: stats.birthtime, ...}))
FileInfo(file) == [filename |-> file, created |-> disk.entries[file]]

\* (mutant) the comparison orders oldest first
CompareCreated_OldestFirst(a, b) == a.created - b.created

\* (a, b) => b.created - a.created
CompareCreated(a, b) == b.created - a.created

\* Array.prototype.sort with that comparison: stable, a stays before b when the
\* comparison is not positive
InsertSorted(sorted, x) ==
  LET k == Cardinality({i \in DOMAIN sorted : CompareCreated(sorted[i], x) <= 0}) IN
  SubSeq(sorted, 1, k) \o <<x>> \o SubSeq(sorted, k + 1, Len(sorted))
RECURSIVE SortByCreated(_)
SortByCreated(list) ==
  IF list = <<>> THEN <<>>
  ELSE InsertSorted(SortByCreated(SubSeq(list, 1, Len(list) - 1)), list[Len(list)])

\* the list GET /api/screenshots returns when readdirSync yields order
ListScreenshots(order) ==
  LET kept == SelectSeq(order, IsScreenshotName) IN
  SortByCreated([i \in DOMAIN kept |-> FileInfo(kept[i])])

\* app.get('/api/screenshots')
GetScreenshots ==
  /\ mode = "gallery" /\ resp = NoResponse
  /\ IF ~ExistsSync(ScreenshotPath)
       THEN resp' = Reply(ListScreenshotsRequest, Response(200, "none", NoId, NoDatetime))
       ELSE \E order \in Readdir :
              resp' = Reply(ListScreenshotsRequest,
                            [Response(200, "none", NoId, NoDatetime)
                               EXCEPT !.screenshots = ListScreenshots(order)])
  /\ UNCHANGED <<mode, now, cliVars, jobs, scheduledJobs, caps, shots, files, disk, daily>>

\* req.params.filename of the model: a name that may be in the folder, and paths
\* that lead out of it (Express decodes %2F in a parameter)
Filenames ==
  {<<name>> : name \in {ShotName(0), <<"screenshot-", "copy", ".png">>}}
    \cup {<<ParentSegment, OutsideFile[Len(OutsideFile)]>>, <<ParentSegment>>}

\* res.sendFile(filepath): sends the file; a path that is no file is not sent
\* and the request ends in Express's 404
SendFile(filepath) ==
  IF IsFile(filepath)
    THEN [Response(200, "none", NoId, NoDatetime) EXCEPT !.file = filepath]
    ELSE Response(404, "Cannot GET", NoId, NoDatetime)

\* the response of GET /api/screenshot/:filename
ScreenshotResponse(filename) ==
  LET filepath == Join(ScreenshotPath, filename) IN
  IF ~ExistsSync(filepath)
    THEN Response(404, "Screenshot not found", NoId, NoDatetime)
    ELSE SendFile(filepath)

\* app.get('/api/screenshot/:filename')
GetScreenshot(filename) ==
  /\ mode = "gallery" /\ resp = NoResponse
  /\ resp' = Reply(ScreenshotRequest(filename), ScreenshotResponse(filename))
  /\ UNCHANGED <<mode, now, cliVars, jobs, scheduledJobs, caps, shots, files, disk, daily>>

\* GET /api/screenshot/:filename/download: server.js registers no such route
\* (app.get('/api/screenshot/:filename') matches one segment only), so the request
\* falls through to Express's 404
DownloadResponse(filename) == Response(404, "Cannot GET", NoId, NoDatetime)

GetScreenshotDownload(filename) ==
  /\ mode = "gallery" /\ resp = NoResponse
  /\ resp' = Reply(DownloadRequest(filename), DownloadResponse(filename))
  /\ UNCHANGED <<mode, now, cliVars, jobs, scheduledJobs, caps, shots, files, disk, daily>>

----------------------------------------------------------------------------
\* index.js started without arguments: the daily recurring mode.  The clock of
\* this mode counts the milliseconds elapsed since a local midnight, the
\* midnight that begins day 0 of the host's calendar.

\* config.scheduledTime: '12:00:00', as milliseconds after midnight
ScheduledTime == 43200000
\* target.setDate(target.getDate() + 1): one day
DayMs == 86400000

\* index.js has not called scheduleNextScreenshot yet
\*   started  main has run
\*   timers   the deadlines of the pending setTimeout timers
\*   runs     the activations of takeScreenshot, one per timer callback
NotStarted == [started |-> FALSE, timers |-> <<>>, runs |-> <<>>]

\* Date works on the fields of the host's local time.  In the calendar of the
\* model the host's zone sets the clocks back one hour at 02:00 of the days in
\* LongDays, which last 25 hours; every other day lasts 24.
HourMs == DayMs \div 24
LongDays == {1}
\* the instant at which local day d begins
DayStart(d) == d * DayMs + Cardinality({x \in LongDays : x < d}) * HourMs
\* the local day that holds instant t
getDate(t) == CHOOSE d \in 0..(MaxDays + 2) : DayStart(d) <= t /\ t < DayStart(d + 1)
\* date.setHours(hours, minutes, seconds, 0) for a date of local day d: the
\* instant of that wall-clock time (given as milliseconds after midnight) on day d
setHours(d, wallMs) ==
  DayStart(d) + wallMs + (IF d \in LongDays /\ wallMs >= 2 * HourMs THEN HourMs ELSE 0)

\* (mutant) a scheduled time equal to the present counts as still ahead
getMillisecondsUntilTime_NowCounts(t) ==
  LET today  == setHours(getDate(t), ScheduledTime)
      target == IF today < t THEN setHours(getDate(t) + 1, ScheduledTime) ELSE today
  IN target - t

\* getMillisecondsUntilTime(config.scheduledTime) at clock time t: the time until
\* the scheduled time of today, or of tomorrow when today's is not ahead
\* (target.setDate(target.getDate() + 1) keeps the wall-clock time)
getMillisecondsUntilTime(t) ==
  LET today  == setHours(getDate(t), ScheduledTime)
      target == IF today <= t THEN setHours(getDate(t) + 1, ScheduledTime) ELSE today
  IN target - t

\* scheduleNextScreenshot(): setTimeout(callback, msUntilTime)
scheduleNextScreenshot(timers, t) == Append(timers, t + getMillisecondsUntilTime(t))

\* main() of index.js without --test and without --at
DailyMain ==
  /\ mode = "daily" /\ ~daily.started
  /\ daily' = [daily EXCEPT !.started = TRUE,
                            !.timers = scheduleNextScreenshot(daily.timers, now)]
  /\ UNCHANGED <<mode, now, cliVars, httpVars, files, disk>>

\* a sequence without its i-th element
RemoveAt(seq, i) == SubSeq(seq, 1, i - 1) \o SubSeq(seq, i + 1, Len(seq))

\* the setTimeout callback starts, no earlier than its deadline, and enters takeScreenshot
DailyTimerFires(i) ==
  /\ mode = "daily"
  /\ now >= daily.timers[i]
  /\ daily' = [daily EXCEPT !.timers = RemoveAt(daily.timers, i),
                            !.runs = Append(daily.runs, StartCap)]
  /\ UNCHANGED <<mode, now, cliVars, httpVars, files, disk>>

\* takeScreenshot of index.js: the steps of the capture routine without the
\* exact-time wait; an error is thrown on to the caller
DailyShotStep(c, t, ok) ==
  IF c.pc = "settle" THEN [c EXCEPT !.pc = "overlay", !.lastLog = "none"]
                     ELSE CapStep(c, NoTime, t, ok, TRUE)

\* (mutant) the callback schedules the next screenshot inside the try
ReschedulesAfter_OnlyOnSuccess(result) == result = "success"

\* the callback after the try/catch around takeScreenshot: scheduleNextScreenshot()
\* is called whether the capture returned or threw
ReschedulesAfter(result) == TRUE

\* the capture of the i-th callback runs one step; when it has returned or thrown
\* the callback schedules the next screenshot
DailyCaptureStep(i) ==
  /\ mode = "daily"
  /\ CapEnabled(daily.runs[i], now)
  /\ \E ok \in Outcomes(daily.runs[i]) :
       LET c2 == DailyShotStep(daily.runs[i], now, ok) IN
       /\ daily' = [daily EXCEPT
                      !.runs[i] = c2,
                      !.timers = IF c2.pc = "done" /\ ReschedulesAfter(c2.result)
                                   THEN scheduleNextScreenshot(daily.timers, now)
                                   ELSE daily.timers]
       /\ files' = FilesAfter(daily.runs[i], c2, now)
  /\ UNCHANGED <<mode, now, cliVars, httpVars, disk>>

----------------------------------------------------------------------------
\* the clock

\* where the clock of the model stops
ClockEnd ==
  IF mode = "cli" THEN MaxCliSeconds * 1000
  ELSE IF mode = "daily" THEN MaxDays * DayMs
  ELSE Horizon

Tick ==
  /\ mode = "cli" => cliPc \in {"armed", "fired"}
  /\ resp = NoResponse
  /\ \E d \in ClockSteps : now + d <= ClockEnd /\ now' = now + d
  /\ UNCHANGED <<mode, cliVars, httpVars, files, disk, daily>>

----------------------------------------------------------------------------

Init ==
  /\ mode \in {"cli", "http", "gallery", "daily"}
  /\ now = 0
  /\ cliPc = "start" /\ args = NoDatetime /\ targetDate = NoTime /\ exitCode = NoExit
  /\ hasExecuted = FALSE
  /\ intervalId = ClearedTimer
  /\ backupTimer = ClearedTimer
  /\ fires = <<>>
  /\ cliCap = IdleCap
  /\ jobs = <<>>
  /\ scheduledJobs = EmptyMap
  /\ caps = <<>>
  /\ shots = <<>>
  /\ files = {}
  /\ countdowns = {}
  /\ disk = NoDirectory
  /\ daily = NotStarted
  /\ resp = NoResponse

CliNext ==
  \/ \E arg \in CliArgs : main(arg)
  \/ IntervalCallback
  \/ BackupCallback
  \/ CliCaptureStep
  \/ Tick

HttpNext ==
  \/ \E d \in Datetimes, recurring \in BOOLEAN : PostSchedule(d, recurring)
  \/ GetJobs
  \/ \E id \in KnownIds : DeleteJob(id)
  \/ \E h \in DOMAIN jobs : JobFire(h)
  \/ \E h \in DOMAIN jobs : HttpCaptureStep(h)
  \/ PostScreenshotNow
  \/ \E i \in DOMAIN shots : ShotCaptureStep(i)
  \/ ResponseSent

GalleryNext ==
  \/ CaptureMakesDirectory
  \/ CaptureWritesFile
  \/ \E name \in OtherNames : OtherFileAppears(name)
  \/ GetScreenshots
  \/ \E filename \in Filenames : GetScreenshot(filename)
  \/ \E filename \in Filenames : GetScreenshotDownload(filename)

DailyNext ==
  \/ DailyMain
  \/ \E i \in DOMAIN daily.timers : DailyTimerFires(i)
  \/ \E i \in DOMAIN daily.runs : DailyCaptureStep(i)

Next == CliNext \/ HttpNext \/ GalleryNext \/ DailyNext

Spec == Init /\ [][Next]_vars

\* The CLI scheduler alone, with a running event loop: the clock advances and a
\* timer callback that is due is eventually run.
CliInit == Init /\ mode = "cli"
\* The file endpoints of the service alone.
GalleryInit == Init /\ mode = "gallery"
Gallery == GalleryInit /\ [][GalleryNext \/ ResponseSent \/ Tick]_vars
\* index.js in daily mode alone.
DailyInit == Init /\ mode = "daily"
Daily == DailyInit /\ [][DailyNext \/ Tick]_vars
CliLive ==
  /\ CliInit /\ [][CliNext]_vars
  /\ WF_vars(Tick) /\ WF_vars(IntervalCallback) /\ WF_vars(BackupCallback)

\* The CLI scheduler with a running event loop whose backup timer may be lost or
\* arbitrarily late: the clock advances and the polling ticks keep occurring.
CliPolling ==
  /\ CliInit /\ [][CliNext]_vars
  /\ WF_vars(Tick) /\ WF_vars(IntervalCallback)

----------------------------------------------------------------------------
\* Properties

\* every capture that has been entered, with the target instant it was given
Captures ==
  (IF cliCap.pc # "idle" THEN {[cap |-> cliCap, target |-> targetDate]} ELSE {})
  \cup {[cap |-> caps[h], target |-> jobs[h].targetDate] :
          h \in {i \in DOMAIN jobs : caps[i].pc # "idle"}}

\* the guard of the CLI scheduler fires in this step
GuardFires == Len(fires') = Len(fires) + 1
\* the callback of job h starts in this step
JobStarts(h) == jobs[h].st = "pending" /\ jobs'[h].st = "running"
\* the callback of job h finishes in this step
JobCompletes(h) == jobs[h].st = "running" /\ jobs'[h].st = "done"
\* a request of kind op is handled in this step; resp' is the handler's answer
Handles(op) == resp = NoResponse /\ resp' # NoResponse /\ resp'.req.op = op

\* C1: whatever the order and the timing of the polling ticks and of the backup
\* timer, the guard calls takeScreenshotAtExactTime at most once, and once the
\* early start time is reached while the guard is armed it does call it.
C1_FiresExactlyOnce ==
  /\ [](Len(fires) <= 1)
  /\ ((cliPc = "armed" /\ now >= earlyStartTime) ~> (Len(fires) = 1))

\* both mechanisms ran: the interval fired the guard and the backup callback, armed
\* at the start, has run after it without firing again
C1_Witness ==
  /\ fires = <<"interval">>
  /\ earlyStartTime > 0
  /\ ~backupTimer.armed
  /\ cliPc = "fired"

\* C3 as stated: pre-warm begins at T - 15000 exactly, in the CLI guard and in the
\* HTTP scheduler.
C3_Original ==
  [][/\ GuardFires => now = targetDate - 15000
     /\ \A h \in DOMAIN jobs : JobStarts(h) => now = jobs[h].targetDate - 15000]_vars

\* C3, amended: pre-warm never begins before T - 15000; it begins when the first
\* trigger runs at or after that instant, which can be later.  When T is less than
\* 15000 ms after the arming of the CLI guard, the guard begins pre-warm from a
\* polling tick (there is no backup timer then), later than T - 15000.
C3_PrewarmNotBeforeLead ==
  [][/\ GuardFires => now >= targetDate - 15000
     /\ (GuardFires /\ targetDate - 15000 < 0) =>
           (now > targetDate - 15000 /\ fires' = <<"interval">>)
     /\ \A h \in DOMAIN jobs : JobStarts(h) => now >= jobs[h].targetDate - 15000]_vars

\* the guard has fired for a target less than 15 s after the start of the process
C3_Witness == cliPc = "fired" /\ targetDate - 15000 < 0 /\ fires = <<"interval">>

\* C6: the overlay (whose text is the clock reading of that step) and the
\* screenshot are never made before the target instant; a capture waits at most
\* once, and its wait ends at the target instant.
C6_NeverBeforeTarget ==
  \A x \in Captures :
    /\ (x.cap.pc \in {"overlay", "shot"} \/ x.cap.result = "success") => now >= x.target
    /\ x.cap.waits <= 1
    /\ x.cap.pc = "sleeping" => (x.cap.waits = 1 /\ x.cap.wakeAt = x.target)

\* a capture whose pre-warm finished early has waited and is about to take the screenshot
C6_Witness == \E x \in Captures : x.cap.pc = "shot" /\ x.cap.waits = 1

\* C7: when the pre-warm ends at or after the target instant, the routine goes on
\* to the overlay without waiting and without failing.
PrewarmEnds(c, c2) == c.pc = "settle" /\ c2.pc # "settle"
Overrun(c, c2) == c2.pc = "overlay" /\ c2.waits = c.waits /\ c2.result = "none"
C7_OverrunSkipsWait ==
  [][/\ (PrewarmEnds(cliCap, cliCap') /\ now >= targetDate) => Overrun(cliCap, cliCap')
     /\ \A h \in DOMAIN jobs :
          (PrewarmEnds(caps[h], caps'[h]) /\ now >= jobs[h].targetDate)
            => Overrun(caps[h], caps'[h])]_vars

\* a capture whose pre-warm overran has succeeded without any wait
C7_Witness ==
  \E x \in Captures : x.cap.result = "success" /\ x.cap.waits = 0 /\ now > x.target

\* C2 as stated: a DELETE of a job's id handled while the job's trigger is pending
\* cancels that trigger and removes the id from the registry, and a cancelled
\* job's capture never starts.
C2_CancelBeforeFire ==
  /\ [][\A h \in DOMAIN jobs :
          (Handles("delete") /\ resp'.req.jobId = jobs[h].id /\ jobs[h].st = "pending")
            => /\ jobs'[h].st = "cancelled"
               /\ ~MapHas(scheduledJobs', jobs[h].id)
               /\ caps'[h] = IdleCap]_vars
  /\ [][\A h \in DOMAIN jobs : jobs[h].st = "cancelled" =>
                                   (jobs'[h].st = "cancelled" /\ caps'[h] = IdleCap)]_vars

\* C4 as stated: a POST /api/schedule whose datetime parses and lies strictly after
\* the current time is answered 200 with the new job id and the target instant,
\* and adds exactly one entry, under that id, to the registry.
C4_FutureRequestSucceeds ==
  [][(/\ Handles("schedule")
      /\ ~IsNaN(NewDate(resp'.req.datetime))
      /\ NewDate(resp'.req.datetime).time > now)
       => /\ resp'.status = 200
          /\ resp'.scheduledFor = ToISOString(NewDate(resp'.req.datetime).time)
          /\ DOMAIN scheduledJobs' = DOMAIN scheduledJobs \cup {resp'.jobId}
          /\ resp'.jobId \notin DOMAIN scheduledJobs]_vars

\* C5: a POST /api/schedule whose datetime is missing, does not parse or is not
\* strictly after the current time is answered 400 by the handler itself, creates
\* no job (arms no timer) and leaves the registry as it was.
C5_BadDatetimeRejected ==
  [][(/\ Handles("schedule")
      /\ \/ resp'.req.datetime.kind = "missing"
         \/ IsNaN(NewDate(resp'.req.datetime))
         \/ NewDate(resp'.req.datetime).time <= now)
       => /\ resp'.status = 400
          /\ UNCHANGED <<jobs, scheduledJobs, caps>>]_vars

\* a request for the present instant has been answered 400 while a job is registered
C5_Witness ==
  /\ resp.req.op = "schedule" /\ resp.req.datetime = IsoString(now)
  /\ resp.status = 400
  /\ scheduledJobs # EmptyMap

\* C8: once the capture of a non-recurring job has finished, with success or with
\* failure, no entry of the registry, and so no record of GET /api/jobs, is that job's.
C8_OneShotRemovedAfterCapture ==
  \A h \in DOMAIN jobs :
    (jobs[h].st = "done" /\ ~jobs[h].recurring) =>
      /\ caps[h].result \in {"success", "failure"}
      /\ \A k \in DOMAIN scheduledJobs : scheduledJobs[k].job # h

\* a one-shot job's capture has failed and the job is gone while another job stays registered
C8_Witness ==
  \E h \in DOMAIN jobs :
    /\ jobs[h].st = "done" /\ ~jobs[h].recurring /\ caps[h].result = "failure"
    /\ ~MapHas(scheduledJobs, jobs[h].id)
    /\ scheduledJobs # EmptyMap

\* C9: a DELETE for an id that is not in the registry is answered 404 and changes
\* nothing (no job is cancelled, the registry is as it was); an id that a DELETE
\* has removed is not in the registry afterwards, so a second DELETE of it is such
\* a request.
C9_UnknownIdNotFound ==
  [][/\ (Handles("delete") /\ ~MapHas(scheduledJobs, resp'.req.jobId))
          => /\ resp'.status = 404
             /\ UNCHANGED <<jobs, scheduledJobs, caps, files>>
     /\ (Handles("delete") /\ MapHas(scheduledJobs, resp'.req.jobId))
          => /\ resp'.status = 200
             /\ ~MapHas(scheduledJobs', resp'.req.jobId)]_vars

\* the second DELETE of a cancelled job's id has been answered 404
C9_Witness ==
  /\ resp.req.op = "delete" /\ resp.status = 404
  /\ \E h \in DOMAIN jobs : jobs[h].id = resp.req.jobId /\ jobs[h].st = "cancelled"

\* C10: a DELETE of a job's id handled while the job's capture is running leaves
\* the job's callback, its capture and the screenshot files as they were, and a
\* capture that has succeeded has written its file.
C10_CancelDuringCapture ==
  /\ [][\A h \in DOMAIN jobs :
          (Handles("delete") /\ resp'.req.jobId = jobs[h].id /\ jobs[h].st = "running")
            => (jobs'[h] = jobs[h] /\ caps'[h] = caps[h] /\ files' = files)]_vars
  /\ [](\A h \in DOMAIN jobs :
          caps[h].result = "success" => \E f \in files : f >= jobs[h].targetDate)

\* a DELETE has been answered 200 for a job whose capture is in its exact-time
\* wait, and the capture is still there
C10_Witness ==
  \E h \in DOMAIN jobs :
    /\ resp.req.op = "delete" /\ resp.req.jobId = jobs[h].id /\ resp.status = 200
    /\ jobs[h].st = "running" /\ caps[h].pc = "sleeping"
    /\ ~MapHas(scheduledJobs, jobs[h].id)

\* C11 as stated: an id is removed, or reported as removed, by one path only: the
\* completion path of a job removes and reports its id only while the registry
\* still holds it (no DELETE has removed it before), and a DELETE reports a
\* removal only of an id the registry holds.
C11_AtMostOneRemoval ==
  [][/\ \A h \in DOMAIN jobs :
          (JobCompletes(h) /\ CompletionRemoves(jobs[h])) => MapHas(scheduledJobs, jobs[h].id)
     /\ (Handles("delete") /\ resp'.status = 200) => MapHas(scheduledJobs, resp'.req.jobId)]_vars

\* every activation of a capture routine: the CLI's, the jobs' and those of
\* POST /api/screenshot/now
AllCaps ==
  {cliCap} \cup {caps[h] : h \in DOMAIN jobs} \cup {shots[i] : i \in DOMAIN shots}

\* C12: a capture routine that has returned or thrown leaves no browser open: the
\* browser it launched is closed, on success and on every failure, and only a
\* routine whose launch failed has none.
C12_BrowserClosed ==
  \A c \in AllCaps :
    /\ c.pc = "done" => c.browser # "open"
    /\ (c.pc = "done" /\ c.result = "success") => c.browser = "closed"
    /\ c.pc \in {"goto", "retry", "adapt", "scroll", "settle", "sleeping", "overlay", "shot"}
         => c.browser = "open"

\* a takeScreenshot and a takeScreenshotAtExactTime have both failed after the
\* launch and have closed their browsers
C12_Witness ==
  /\ \E i \in DOMAIN shots :
       shots[i].pc = "done" /\ shots[i].result = "failure" /\ shots[i].browser = "closed"
  /\ \E h \in DOMAIN jobs :
       caps[h].pc = "done" /\ caps[h].result = "failure" /\ caps[h].browser = "closed"

\* C13 as stated: no capture routine lets an exception escape to its caller: every
\* routine that has finished has returned a result, success or failure.
C13_NoExceptionEscapes ==
  \A c \in AllCaps : c.pc = "done" => c.result \in {"success", "failure"}

\* the capture routines that take a step, as pairs <<before, after>>
CapSteps ==
  {<<cliCap, cliCap'>>}
    \cup {<<caps[h], caps'[h]>> : h \in DOMAIN caps}
    \cup {<<shots[i], shots'[i]>> : i \in DOMAIN shots}

\* C14: a capture makes one primary navigation attempt, entered from the launch
\* only, and a fallback attempt entered from a failed primary attempt only; after
\* the fallback the routine either goes on to the UI adaptation or has failed, and
\* a routine that has finished runs no further step.
C14_AtMostTwoNavigations ==
  [][\A x \in CapSteps :
       /\ (x[2].pc = "goto" /\ x[2] # x[1]) => x[1].pc = "launch"
       /\ (x[2].pc = "retry" /\ x[2] # x[1]) => x[1].pc = "goto"
       /\ (x[1].pc = "goto" /\ x[2] # x[1]) => x[2].pc \in {"adapt", "retry"}
       /\ (x[1].pc = "retry" /\ x[2] # x[1]) =>
            \/ x[2].pc = "adapt"
            \/ x[2].pc = "done" /\ x[2].result \in {"failure", "thrown"}
       /\ x[1].pc = "done" => x[2] = x[1]]_vars

\* the primary attempt of a job's capture has failed and the fallback is under way
C14_Witness ==
  \E h \in DOMAIN jobs : caps[h].pc = "retry" /\ caps[h].browser = "open"

\* C15: the UI adaptation, failed or not, is followed by the scroll: the capture is
\* not failed and its browser stays open, and a capture whose adaptation failure
\* has just been logged is at the scroll.
C15_AdaptationNeverFatal ==
  /\ [][\A x \in CapSteps :
          (x[1].pc = "adapt" /\ x[2] # x[1])
             => (x[2].pc = "scroll" /\ x[2].result = "none" /\ x[2].browser = "open")]_vars
  /\ [](\A c \in AllCaps :
          c.lastLog = "skipped" => (c.pc = "scroll" /\ c.result = "none"))

\* a UI-adaptation failure has been logged and the capture goes on with the scroll
C15_Witness ==
  \E c \in AllCaps : c.lastLog = "skipped" /\ c.pc = "scroll" /\ c.browser = "open"

\* C16 as stated: the scroll step and the overlay step are fault-tolerant: whatever
\* their outcome, the routine goes on towards the screenshot and is not aborted.
C16_ScrollAndOverlayTolerant ==
  [][\A x \in CapSteps :
       (x[1].pc \in {"scroll", "overlay"} /\ x[2] # x[1])
          => (x[2].pc \in {"settle", "shot"} /\ x[2].result = "none")]_vars

\* C17 as stated: once the guard has fired, no trigger of the guard is pending:
\* neither the polling interval nor the backup timer.
C17_NoTriggerAfterFire ==
  hasExecuted => (~intervalId.armed /\ ~backupTimer.armed)

\* C18: when the capture routine awaited by the guard has returned or thrown, the
\* process has exited, with status 0 if the capture succeeded and 1 if not; a
\* guard that has fired is never armed again, and an exited process stays exited.
C18_FiredThenTerminated ==
  /\ [](cliCap.pc = "done" =>
          /\ cliPc = "exited"
          /\ exitCode = (IF cliCap.result = "success" THEN 0 ELSE 1))
  /\ [][/\ cliPc = "fired" => cliPc' \in {"fired", "exited"}
        /\ cliPc = "exited" => (cliPc' = "exited" /\ exitCode' = exitCode)]_vars

\* the guard has fired, the capture has thrown and the process has exited with 1
C18_Witness ==
  /\ cliPc = "exited" /\ exitCode = 1
  /\ Len(fires) = 1 /\ cliCap.pc = "done" /\ cliCap.result = "thrown"

\* C19: main exits 0 on --help (or no argument) and exits 1 on a timestamp that
\* does not parse or is not strictly after the current time; a process that has
\* exited without its guard firing has armed no trigger and started no capture.
C19_MainRejects ==
  /\ [][(cliPc = "start" /\ cliPc' # "start") =>
          /\ args'.kind \in {"missing", "help"} => (cliPc' = "exited" /\ exitCode' = 0)
          /\ (/\ args'.kind \notin {"missing", "help"}
              /\ (IsNaN(NewDate(args')) \/ NewDate(args').time <= now))
               => (cliPc' = "exited" /\ exitCode' = 1)]_vars
  /\ []((cliPc = "exited" /\ fires = <<>>) =>
          /\ ~intervalId.armed /\ ~backupTimer.armed /\ ~hasExecuted
          /\ cliCap = IdleCap /\ files = {})

\* main has rejected a timestamp equal to the current time
C19_Witness ==
  /\ cliPc = "exited" /\ exitCode = 1
  /\ args = IsoString(now) /\ fires = <<>>

\* C20: with the polling ticks alone (the backup timer may never run) and whatever
\* the clock jumps, a polling tick that reads a clock at or after the lead instant
\* while the guard is armed fires it, and an armed guard eventually fires.
C20_PollingAloneFires ==
  /\ [][(/\ cliPc = "armed" /\ intervalId.armed /\ intervalId' # intervalId
         /\ now >= earlyStartTime)
          => (GuardFires /\ cliPc' = "fired")]_vars
  /\ (cliPc = "armed") ~> (Len(fires) = 1)

\* the guard has fired from a polling tick after a clock jump, more than a check
\* interval after the deadline of the backup timer, which has still not run
C20_Witness ==
  /\ fires = <<"interval">>
  /\ backupTimer.armed /\ now > backupTimer.due + checkInterval

\* C21: GET /api/jobs answers 200 with exactly one record per entry of the
\* registry, each made of the entry's id, datetime, recurring flag and creation
\* time and of nothing else (the node-schedule job is not in it), and leaves the
\* registry as it is; right after a POST /api/schedule answered 200, the listing
\* holds a record with the returned job id whose datetime is the returned
\* scheduledFor.
C21_ListJobsExact ==
  [][/\ Handles("jobs") =>
          /\ resp'.status = 200
          /\ {r.id : r \in resp'.body} = DOMAIN scheduledJobs
          /\ Cardinality(resp'.body) = Cardinality(DOMAIN scheduledJobs)
          /\ \A r \in resp'.body :
               /\ DOMAIN r = {"id", "datetime", "recurring", "scheduled"}
               /\ r.datetime = scheduledJobs[r.id].datetime
               /\ r.recurring = scheduledJobs[r.id].recurring
               /\ r.scheduled = scheduledJobs[r.id].scheduled
          /\ UNCHANGED <<jobs, scheduledJobs, caps>>
     /\ (Handles("schedule") /\ resp'.status = 200) =>
          \E r \in ListJobs' : r.id = resp'.jobId /\ r.datetime = resp'.scheduledFor]_vars

\* GET /api/jobs has listed two jobs, one of them running its capture
C21_Witness ==
  /\ resp.req.op = "jobs" /\ Cardinality(resp.body) = 2
  /\ \E h \in DOMAIN jobs : jobs[h].st = "running" /\ MapHas(scheduledJobs, jobs[h].id)

\* C22: when the fallback navigation of a POST /api/screenshot/now fails too, the
\* handler answers 500 with the message of the navigation error, takeScreenshot
\* has returned a failure with its browser closed, and the jobs, their captures
\* and the registry are as they were; no step of takeScreenshot changes the
\* registry.
C22_NowFailsCleanly ==
  [][\A i \in DOMAIN shots :
       /\ (shots[i].pc = "retry" /\ shots'[i].pc = "done") =>
            /\ Handles("now")
            /\ resp'.status = 500 /\ resp'.error = "retry"
            /\ shots'[i].result = "failure" /\ shots'[i].browser = "closed"
            /\ UNCHANGED <<jobs, scheduledJobs, caps, files>>
       /\ shots'[i] # shots[i] => UNCHANGED <<jobs, scheduledJobs, caps>>]_vars

\* a POST /api/screenshot/now has been answered 500 after both navigation attempts
\* failed, while a job is registered
C22_Witness ==
  /\ resp.req.op = "now" /\ resp.status = 500 /\ resp.error = "retry"
  /\ \E i \in DOMAIN shots : shots[i].error = "retry" /\ shots[i].browser = "closed"
  /\ scheduledJobs # EmptyMap

\* the names in the output directory that start with 'screenshot-' and end with '.png'
MatchingNames ==
  {name \in DOMAIN disk.entries : name[1] = "screenshot-" /\ name[Len(name)] = ".png"}

\* C23: GET /api/screenshots answers 200 with a list that holds exactly the files
\* of the output directory whose name starts with 'screenshot-' and ends with
\* '.png', each once and with its creation time, no file before one created
\* later than it; the list is empty when the directory does not exist.
C23_ListScreenshotsExact ==
  [][Handles("screenshots") =>
       LET list == resp'.screenshots IN
       /\ resp'.status = 200
       /\ {list[i].filename : i \in DOMAIN list} = (IF disk.exists THEN MatchingNames ELSE {})
       /\ Len(list) = Cardinality(IF disk.exists THEN MatchingNames ELSE {})
       /\ \A i \in DOMAIN list : list[i].created = disk.entries[list[i].filename]
       /\ \A i, j \in DOMAIN list : i < j => list[i].created >= list[j].created
       /\ ~disk.exists => list = <<>>
       /\ UNCHANGED disk]_vars

\* the listing holds two screenshots, the newer first, and leaves out a third file
\* of the folder that is older than both
C23_Witness ==
  /\ resp.req.op = "screenshots" /\ Len(resp.screenshots) = 2
  /\ resp.screenshots[1].created > resp.screenshots[2].created
  /\ \E name \in DOMAIN disk.entries :
       /\ name \notin MatchingNames
       /\ disk.entries[name] < resp.screenshots[2].created

\* the path lies inside the output directory
InsideDirectory(path) ==
  /\ Len(path) > Len(ScreenshotPath)
  /\ SubSeq(path, 1, Len(ScreenshotPath)) = ScreenshotPath

\* C24 as stated: GET /api/screenshot/:filename and GET
\* /api/screenshot/:filename/download, asked for a plain file name, both send the
\* file of that name when it is in the output directory, and both answer 404
\* when it is not.
C24_BothVariantsServe ==
  [][\A op \in {"screenshot", "download"} :
       (Handles(op) /\ Len(resp'.req.filename) = 1 /\ resp'.req.filename[1] # ParentSegment) =>
          IF disk.exists /\ resp'.req.filename[1] \in DOMAIN disk.entries
            THEN resp'.status = 200 /\ resp'.file = Append(ScreenshotPath, resp'.req.filename[1])
            ELSE resp'.status = 404]_vars

\* C25 as stated: whatever the filename parameter, a file that GET
\* /api/screenshot/:filename sends lies inside the output directory.
C25_ServesOnlyFromDirectory ==
  [][(Handles("screenshot") /\ resp'.status = 200) => InsideDirectory(resp'.file)]_vars

\* C26 as stated: no two jobs that POST /api/schedule has created have the same
\* id, and a POST /api/schedule answered 200 stores its job under an id that the
\* registry does not hold yet.
C26_JobIdsUnique ==
  /\ [](\A h1, h2 \in DOMAIN jobs : h1 # h2 => jobs[h1].id # jobs[h2].id)
  /\ [][(Handles("schedule") /\ resp'.status = 200)
          => resp'.jobId \notin DOMAIN scheduledJobs]_vars

\* a capture of the daily mode is running
DailyCaptureRunning == \E i \in DOMAIN daily.runs : daily.runs[i].pc # "done"

\* C27: in daily mode, once main has run, exactly one timer is pending whenever no
\* capture is running, and none while one is; a capture that returns or throws
\* is followed in the same step by the scheduling of the next one, for a later
\* instant, and captures never overlap.
C27_ExactlyOneTimer ==
  /\ [](daily.started =>
          /\ Len(daily.timers) = (IF DailyCaptureRunning THEN 0 ELSE 1)
          /\ Cardinality({i \in DOMAIN daily.runs : daily.runs[i].pc # "done"}) <= 1)
  /\ [][\A i \in DOMAIN daily.runs :
          (daily.runs[i].pc # "done" /\ daily'.runs[i].pc = "done")
            => /\ Len(daily'.timers) = 1
               /\ daily'.timers[1] > now]_vars

\* a capture has succeeded, the next one has thrown, and a timer is pending for
\* the day after
C27_Witness ==
  /\ Len(daily.runs) = 2
  /\ daily.runs[1].result = "success" /\ daily.runs[2].result = "thrown"
  /\ Len(daily.timers) = 1 /\ daily.timers[1] > now

\* C28 as stated: for every 30-second mark of the remaining time that passes
\* while the guard is armed (the clock is past the instant at which that much
\* time remained, and a polling tick was due by then), a countdown of that mark
\* has been logged; and a countdown is logged only while the guard has not fired
\* and the target is ahead.
C28_CountdownEveryMark ==
  /\ [](\A k \in 1..(MaxCliSeconds \div 30) :
          (/\ cliPc # "start" /\ targetDate # NoTime
           /\ targetDate - k * 30000 >= checkInterval
           /\ now > targetDate - k * 30000)
            => (k * 30) \in countdowns)
  /\ [][countdowns' # countdowns => (~hasExecuted /\ now < targetDate)]_vars

\* C29 as stated: the registry entry of a recurring job stays as it is when the
\* job's capture completes, and it is removed or replaced only by a DELETE of its
\* id that is answered 200.
C29_RecurringStaysListed ==
  [][/\ \A h \in DOMAIN jobs :
          (JobCompletes(h) /\ jobs[h].recurring) => scheduledJobs' = scheduledJobs
     /\ \A k \in DOMAIN scheduledJobs :
          (/\ scheduledJobs[k].recurring
           /\ (~MapHas(scheduledJobs', k) \/ scheduledJobs'[k] # scheduledJobs[k]))
            => (Handles("delete") /\ resp'.req.jobId = k /\ resp'.status = 200)]_vars

\* the registry after the step is the registry before it, but for the entry of id
OnlyEntryRemoved(id) ==
  /\ DOMAIN scheduledJobs \ {id} \subseteq DOMAIN scheduledJobs'
  /\ DOMAIN scheduledJobs' \subseteq DOMAIN scheduledJobs
  /\ \A k \in DOMAIN scheduledJobs \ {id} : scheduledJobs'[k] = scheduledJobs[k]

\* C30: a DELETE answered 200 and the completion callback of a job change the
\* registry at most by removing the entry of their own id, and a DELETE cancels
\* no job but the one of that entry; a request answered 400, 404 or 500 (a POST
\* /api/schedule for which node-schedule returns no job among them) leaves the
\* registry as it was.
C30_RegistryFrame ==
  [][/\ (Handles("delete") /\ resp'.status = 200) =>
          /\ OnlyEntryRemoved(resp'.req.jobId)
          /\ \A h \in DOMAIN jobs :
               h # scheduledJobs[resp'.req.jobId].job => jobs'[h] = jobs[h]
     /\ \A h \in DOMAIN jobs : JobCompletes(h) => OnlyEntryRemoved(jobs[h].id)
     /\ (resp = NoResponse /\ resp'.status \in {400, 404, 500})
          => scheduledJobs' = scheduledJobs]_vars

\* a DELETE has removed one of two entries: the other one is still registered and
\* its job still pending
C30_Witness ==
  /\ resp.req.op = "delete" /\ resp.status = 200
  /\ \E k \in DOMAIN scheduledJobs :
       k # resp.req.jobId /\ jobs[scheduledJobs[k].job].st = "pending"

\* the job handle a registry entry holds has work ahead of it: its trigger is
\* pending, or its callback is inside the capture
LiveWork(entry) == jobs[entry.job].st \in {"pending", "running"}

\* C31: at every state each non-recurring entry of the job registry stands for
\* live work: the trigger of the job it holds is still pending, or that job's
\* capture is in progress; no non-recurring entry is left once the capture of
\* its job has finished.
C31_EntriesAreLive ==
  \A k \in DOMAIN scheduledJobs :
    ~scheduledJobs[k].recurring => LiveWork(scheduledJobs[k])

\* a one-shot job has finished its capture and its entry is gone, while the
\* entry of another one-shot job, whose capture is in progress, is listed
C31_Witness ==
  /\ \E h \in DOMAIN jobs :
       /\ jobs[h].st = "done" /\ ~jobs[h].recurring
       /\ ~MapHas(scheduledJobs, jobs[h].id)
  /\ \E k \in DOMAIN scheduledJobs :
       /\ ~scheduledJobs[k].recurring
       /\ jobs[scheduledJobs[k].job].st = "running"

\* a capture of the service (of a job, or of POST /api/screenshot/now) writes its
\* screenshot and returns {success: true} in this step
CaptureSucceeds ==
  \/ \E h \in DOMAIN caps :
       caps[h].pc = "shot" /\ caps'[h].pc = "done" /\ caps'[h].result = "success"
  \/ \E i \in DOMAIN shots :
       i \in DOMAIN shots' /\ shots[i].pc = "shot"
         /\ shots'[i].pc = "done" /\ shots'[i].result = "success"

\* C32 as stated: every successful capture produces a screenshot file of its own;
\* however the captures of several jobs and of POST /api/screenshot/now
\* interleave, no two of them write the same file path, so each successful
\* capture makes the number of screenshot files grow by one.
C32_OneFilePerCapture ==
  [][(mode = "http" /\ CaptureSucceeds) =>
       Cardinality(files') = Cardinality(files) + 1]_vars

\* the files of the output directory that a capture wrote: named after the
\* instant at which they were created
CapturedNames == {name \in DOMAIN disk.entries : name = ShotName(disk.entries[name])}

\* a capture writes its screenshot in this step and returns filename
CaptureReturns(filename) ==
  /\ mode = "gallery" /\ disk.exists /\ resp = NoResponse /\ resp' = NoResponse
  /\ filename = ShotName(now)
  /\ disk'.entries = WriteFile(disk.entries, filename, now)
  /\ filename \in DOMAIN disk'.entries

\* C33: the filename a successful capture returns passes the filter of the
\* listing (it starts with 'screenshot-' and ends with '.png'), and every later
\* GET /api/screenshots holds the filename of every file a capture has written
\* (no file is deleted).
C33_CaptureThenListed ==
  [][/\ \A filename \in {ShotName(now)} :
          CaptureReturns(filename) => IsScreenshotName(filename)
     /\ Handles("screenshots") =>
          \A name \in CapturedNames :
            \E i \in DOMAIN resp'.screenshots : resp'.screenshots[i].filename = name]_vars

\* a listing holds the files of two captures, next to a file that no capture wrote
C33_Witness ==
  /\ resp.req.op = "screenshots"
  /\ Cardinality(CapturedNames) = 2
  /\ \A name \in CapturedNames :
       \E i \in DOMAIN resp.screenshots : resp.screenshots[i].filename = name
  /\ DOMAIN disk.entries # CapturedNames

\* scheduleWithPeriodicChecks arms the guard in this step
GuardArms == cliPc = "start" /\ cliPc' = "armed"
\* the setInterval callback runs in this step while the guard has not fired and
\* no backup timer is there (a backup timer, once armed, stays until it runs)
PollingTickWithoutBackup ==
  /\ cliPc = "armed" /\ ~hasExecuted /\ ~backupTimer.armed
  /\ intervalId.armed /\ intervalId' # intervalId

\* C34: when the guard is armed less than 15000 ms before the target instant (the
\* lead instant is already past), the backup timer is not armed at all and the
\* first run of the polling callback fires the guard; when the lead instant is
\* still ahead, the polling interval and the backup timer are both armed.
C34_BackupOnlyWhenLeadAhead ==
  [][/\ GuardArms =>
          /\ intervalId'.armed
          /\ targetDate' - now < PROCESS_DURATION_MS => ~backupTimer'.armed
          /\ targetDate' - PROCESS_DURATION_MS > now => backupTimer'.armed
     /\ PollingTickWithoutBackup => fires' = <<"interval">> /\ ~backupTimer'.armed]_vars

\* a guard armed 3 s before its target has fired from the polling callback, with
\* no backup timer
C34_Witness ==
  /\ cliPc = "fired" /\ fires = <<"interval">>
  /\ ~backupTimer.armed
  /\ earlyStartTime < 0

\* scheduleNextScreenshot arms a timer in this step; Delay is the value
\* getMillisecondsUntilTime returned to it
SchedulesNext == mode = "daily" /\ Len(daily'.timers) = Len(daily.timers) + 1
Delay == daily'.timers[Len(daily'.timers)] - now
\* the instants at which the host's wall clock shows the configured time of day
Occurrences == {setHours(d, ScheduledTime) : d \in 0..(MaxDays + 2)}
\* the next of them after instant t
NextOccurrence(t) ==
  CHOOSE o \in Occurrences : o > t /\ \A p \in Occurrences : p > t => o <= p
\* the host's clocks are set back after instant t and no later than instant u
SetBackWithin(t, u) ==
  \E d \in LongDays : t < DayStart(d) + 2 * HourMs /\ DayStart(d) + 2 * HourMs <= u

============================================================================
